---- MODULE Spec2Model ----
(***************************************************************************)
(* Animation Transform Offset (src/__init__.py): three modal operators     *)
(* (grab, rotate, scale) that snapshot the transform of the selected,      *)
(* animated objects, launch the host's interactive transform tool, and on  *)
(* confirm offset every keyframe of the matching channel by the observed   *)
(* delta, or on cancel restore the snapshot.                               *)
(*                                                                         *)
(* Numbers are exact rationals <<n, d>> (d > 0, lowest terms): the         *)
(* arithmetic is done operation by operation as the code does it, but      *)
(* binary floating-point rounding is not represented.                      *)
(***************************************************************************)
EXTENDS Integers, Sequences, FiniteSets, TLC

VARIABLES
    selected,        \* context.selected_objects, as a set (order: Objects)
    animation_data,  \* obj.animation_data (NoAnimData, or a record with .action)
    fcurves,         \* action.fcurves: per action a sequence of curves
    location,        \* obj.location
    rotation_euler,  \* obj.rotation_euler
    scale,           \* obj.scale
    start_locs,      \* ANIMOFFSET_OT_grab.start_locs   (class attribute)
    start_rots,      \* ANIMOFFSET_OT_rotate.start_rots (class attribute)
    start_scales,    \* ANIMOFFSET_OT_scale.start_scales(class attribute)
    op,              \* the operator whose invoke ran last ("none" at start)
    phase,           \* "Idle", "Running", "Finished", "Cancelled", "Faulted"
    event,           \* the event the last step handed to invoke/modal, or NoEvent
                     \* when the last step was the host's or the user's
    host_tool,       \* the host transform tool launched by the last accepted invoke
    report,          \* what the last invoke reported through self.report
    faulted_at,      \* the object whose delta computation raised, or NoObject
    gestures         \* number of accepted invocations so far

vars == <<selected, animation_data, fcurves, location, rotation_euler, scale,
          start_locs, start_rots, start_scales, op, phase, event, host_tool,
          report, faulted_at, gestures>>

scene == <<selected, animation_data, fcurves, location, rotation_euler, scale>>

-----------------------------------------------------------------------------
(* Bounds *)

MaxGestures == 2

-----------------------------------------------------------------------------
(* Exact arithmetic standing for Python float arithmetic *)

Abs(n) == IF n < 0 THEN -n ELSE n

RECURSIVE GCD(_, _)
GCD(a, b) == IF b = 0 THEN a ELSE GCD(b, a % b)

Norm(n, d) ==
    IF n = 0 THEN <<0, 1>>
    ELSE LET s == IF d < 0 THEN -1 ELSE 1
             g == GCD(Abs(n), Abs(d))
         IN  <<(s * n) \div g, (s * d) \div g>>

R(n) == <<n, 1>>

FAdd(a, b) == Norm(a[1] * b[2] + b[1] * a[2], a[2] * b[2])

FSub(a, b) == Norm(a[1] * b[2] - b[1] * a[2], a[2] * b[2])

FMul(a, b) == Norm(a[1] * b[1], a[2] * b[2])

IsZero(a) == a[1] = 0

\* a / b; the caller has checked b # 0 (Python raises ZeroDivisionError)
FDiv(a, b) == Norm(a[1] * b[2], a[2] * b[1])

V3(x, y, z) == <<R(x), R(y), R(z)>>

\* mathutils.Vector subtraction, component by component
VSub(a, b) == <<FSub(a[1], b[1]), FSub(a[2], b[2]), FSub(a[3], b[3])>>

\* math.degrees / math.radians: x * 180 / pi and x * pi / 180.  A value in
\* degrees is kept as its multiple of 1/pi, so degrees multiplies by 180
\* and radians divides by 180.
degrees(x) == FMul(x, R(180))

radians(x) == FDiv(x, R(180))

-----------------------------------------------------------------------------
(* The scene *)

Objects == <<"A", "B">>          \* context order of the objects

Objs == {Objects[i] : i \in 1..Len(Objects)}

Actions == {"act1", "act2"}

NoAction == "NoAction"

NoObject == "NoObject"

\* obj.animation_data is None
NoAnimData == [exists |-> FALSE, action |-> NoAction]

\* obj.animation_data with its .action (an action or None)
AnimData(a) == [exists |-> TRUE, action |-> a]

AnimChoices == {NoAnimData} \cup {AnimData(a) : a \in Actions \cup {NoAction}}

\* object A is animated by act1; B has no animation data, shares act1, or
\* has an action of its own
InitAnimation ==
    {[o \in Objs |-> IF o = "A" THEN AnimData("act1") ELSE ad] :
        ad \in {NoAnimData, AnimData("act1"), AnimData("act2")}}

\* the objects whose action gets unlinked in the sessions explored (A keeps
\* its action throughout)
Unlinkable == {"B"}

KP(x, y) == [co |-> [x |-> x, y |-> R(y)]]

FC(path, idx, kps) == [data_path |-> path, array_index |-> idx, keyframe_points |-> kps]

InitCurves ==
    [a \in Actions |->
        IF a = "act1"
        THEN << FC("location", 0, <<KP(1, 5), KP(10, 8)>>),
                FC("scale", 1, <<KP(1, 3)>>),
                FC("rotation_euler", 2, <<KP(1, 1)>>) >>
        ELSE << FC("location", 1, <<KP(1, 4)>>),
                FC("scale", 0, <<KP(5, 2)>>) >>]

\* what the host's interactive tools may leave in a transform component
LocChoices == {V3(0, 0, 0), V3(2, 0, 0), V3(0, 1, 3)}
RotChoices == {V3(0, 0, 0), V3(0, 0, 1)}
ScaleChoices == {V3(1, 2, 1), V3(0, 1, 1)}

\* an empty dict
EmptyMap == [o \in {} |-> V3(0, 0, 0)]

\* the events the host's event loop hands to a modal handler
Events ==
    { [type |-> "MOUSEMOVE", value |-> "NOTHING"],
      [type |-> "LEFTMOUSE", value |-> "PRESS"],
      [type |-> "LEFTMOUSE", value |-> "RELEASE"],
      [type |-> "RIGHTMOUSE", value |-> "PRESS"],
      [type |-> "ESC", value |-> "PRESS"],
      [type |-> "A", value |-> "PRESS"] }

\* the keymap item that triggers each operator (register)
Shortcut(key) == [type |-> key, value |-> "PRESS"]

NoEvent == [type |-> "NONE", value |-> "NOTHING"]

WarningReport == <<"WARNING", "Select at least one animated object">>

-----------------------------------------------------------------------------
(* Helpers shared by the three operators *)

\* context.selected_objects, in scene order
SelectedObjects == SelectSeq(Objects, LAMBDA o : o \in selected)

\* obj.animation_data and obj.animation_data.action
HasAction(o) == animation_data[o].exists /\ animation_data[o].action # NoAction

\* variant: the flag is set for any selected object
AnimatedObjectsAnySelected == selected # {}

\* the flag animated_objects after the loop of invoke
AnimatedObjects == \E o \in selected : HasAction(o)

\* variant: the dict is not cleared
ClearedKept(start) == start

\* self.start_xxx.clear()
Cleared(start) == EmptyMap

\* variant: every selected object is stored, animated or not
StoreInitialAllSelected(start, comp) ==
    [o \in (DOMAIN start) \cup selected |->
        IF o \in selected THEN comp[o] ELSE start[o]]

\* for obj in context.selected_objects: if <has action>: start[obj] = comp.copy()
StoreInitial(start, comp) ==
    LET animated == {o \in selected : HasAction(o)}
    IN  [o \in (DOMAIN start) \cup animated |->
            IF o \in animated THEN comp[o] ELSE start[o]]

\* variant: the snapshot is compared with the component, not assigned to it
RestoreCompared(start, comp) == comp

\* for obj in context.selected_objects: if obj in start: obj.<comp> = start[obj]
Restore(start, comp) ==
    [o \in Objs |-> IF o \in selected /\ o \in DOMAIN start THEN start[o] ELSE comp[o]]

RECURSIVE InsertByFrame(_, _)
InsertByFrame(kp, sorted) ==
    IF sorted = << >> THEN <<kp>>
    ELSE IF kp.co.x < Head(sorted).co.x THEN <<kp>> \o sorted
    ELSE <<Head(sorted)>> \o InsertByFrame(kp, Tail(sorted))

RECURSIVE SortByFrame(_)
SortByFrame(kps) ==
    IF kps = << >> THEN << >>
    ELSE InsertByFrame(kps[Len(kps)], SortByFrame(SubSeq(kps, 1, Len(kps) - 1)))

\* fc.update(): the host re-sorts the keyframe points by frame
FCurveUpdate(fc) == [fc EXCEPT !.keyframe_points = SortByFrame(fc.keyframe_points)]

\* the values kp.co.y of a curve's keyframe points, in order
Values(fc) == [j \in 1..Len(fc.keyframe_points) |-> fc.keyframe_points[j].co.y]

\* for kp in fc.keyframe_points: kp.co.y = <new value>; then fc.update()
EditPoints(fc, ys) ==
    LET kps == fc.keyframe_points
        new == [j \in 1..Len(kps) |-> [co |-> [x |-> kps[j].co.x, y |-> ys[j]]]]
    IN  FCurveUpdate([fc EXCEPT !.keyframe_points = new])

\* event.type == 'MOUSEMOVE'
IsMouseMove(e) == e.type = "MOUSEMOVE"

\* event.type == 'LEFTMOUSE' and event.value == 'RELEASE'
IsConfirm(e) == e.type = "LEFTMOUSE" /\ e.value = "RELEASE"

\* event.type in {'RIGHTMOUSE', 'ESC'}
IsCancel(e) == e.type \in {"RIGHTMOUSE", "ESC"}

-----------------------------------------------------------------------------
(* ANIMOFFSET_OT_grab *)

\* variant: the loop over the curves lacks the data path test
GrabOffsetObjectAnyPath(fcs, obj) ==
    IF HasAction(obj) /\ obj \in DOMAIN start_locs
    THEN LET delta == VSub(location[obj], start_locs[obj])
             act == animation_data[obj].action
         IN  [fcs EXCEPT ![act] =
                 [k \in 1..Len(fcs[act]) |->
                     EditPoints(fcs[act][k],
                         [j \in 1..Len(fcs[act][k].keyframe_points) |->
                             FAdd(Values(fcs[act][k])[j],
                                  delta[fcs[act][k].array_index + 1])])]]
    ELSE fcs

\* delta = obj.location - self.start_locs[obj]; every "location" curve of
\* the object's action gets delta[fc.array_index] added to each keyframe
GrabOffsetObject(fcs, obj) ==
    IF HasAction(obj) /\ obj \in DOMAIN start_locs
    THEN LET delta == VSub(location[obj], start_locs[obj])
             act == animation_data[obj].action
         IN  [fcs EXCEPT ![act] =
                 [k \in 1..Len(fcs[act]) |->
                     IF fcs[act][k].data_path = "location"
                     THEN EditPoints(fcs[act][k],
                              [j \in 1..Len(fcs[act][k].keyframe_points) |->
                                  FAdd(Values(fcs[act][k])[j],
                                       delta[fcs[act][k].array_index + 1])])
                     ELSE fcs[act][k]]]
    ELSE fcs

RECURSIVE GrabOffsetLoop(_, _)
GrabOffsetLoop(fcs, objs) ==
    IF objs = << >> THEN fcs
    ELSE GrabOffsetLoop(GrabOffsetObject(fcs, Head(objs)), Tail(objs))

\* variant: the confirm edits nothing at all when a stored object has lost
\* its action
GrabOffsetAllOrNothing(fcs, objs) ==
    IF \E i \in 1..Len(objs) : objs[i] \in DOMAIN start_locs /\ ~HasAction(objs[i])
    THEN fcs
    ELSE GrabOffsetLoop(fcs, objs)

RECURSIVE GrabOffsetUnique(_, _, _)
GrabOffsetUnique(fcs, objs, done) ==
    IF objs = << >> THEN fcs
    ELSE LET obj == Head(objs)
             act == animation_data[obj].action
         IN  IF act \in done
             THEN GrabOffsetUnique(fcs, Tail(objs), done)
             ELSE GrabOffsetUnique(GrabOffsetObject(fcs, obj), Tail(objs),
                      IF HasAction(obj) /\ obj \in DOMAIN start_locs
                      THEN done \cup {act} ELSE done)

\* variant: an action is offset once, by the first object that has it
GrabOffsetOncePerAction(fcs, objs) == GrabOffsetUnique(fcs, objs, {})

RECURSIVE GrabOffset(_, _)
GrabOffset(fcs, objs) ==
    IF objs = << >> THEN fcs
    ELSE GrabOffset(GrabOffsetObject(fcs, Head(objs)), Tail(objs))

GrabInvoke ==
    /\ phase # "Running"
    /\ LET animated_objects == AnimatedObjects
       IN  /\ start_locs' = StoreInitial(Cleared(start_locs), location)
           /\ IF ~animated_objects
              THEN /\ report' = WarningReport
                   /\ phase' = "Cancelled"
                   /\ UNCHANGED <<host_tool, gestures>>
              ELSE /\ gestures < MaxGestures
                   /\ report' = << >>
                   /\ host_tool' = "translate"
                   /\ phase' = "Running"
                   /\ gestures' = gestures + 1
    /\ op' = "grab"
    /\ event' = Shortcut("G")
    /\ faulted_at' = NoObject
    /\ UNCHANGED <<scene, start_rots, start_scales>>

GrabPassThrough(e) ==
    /\ phase = "Running" /\ op = "grab"
    /\ IsMouseMove(e)
    /\ event' = e
    /\ UNCHANGED <<scene, start_locs, start_rots, start_scales, op, phase,
                   host_tool, report, faulted_at, gestures>>

GrabConfirm(e) ==
    /\ phase = "Running" /\ op = "grab"
    /\ ~IsMouseMove(e) /\ IsConfirm(e)
    /\ event' = e
    /\ fcurves' = GrabOffset(fcurves, SelectedObjects)
    /\ phase' = "Finished"
    /\ UNCHANGED <<selected, animation_data, location, rotation_euler, scale,
                   start_locs, start_rots, start_scales, op, host_tool, report,
                   faulted_at, gestures>>

\* variant: the cancel branch applies the offset before it restores
GrabCancelOffsetting(e) ==
    /\ phase = "Running" /\ op = "grab"
    /\ ~IsMouseMove(e) /\ ~IsConfirm(e) /\ IsCancel(e)
    /\ event' = e
    /\ fcurves' = GrabOffset(fcurves, SelectedObjects)
    /\ location' = Restore(start_locs, location)
    /\ phase' = "Cancelled"
    /\ UNCHANGED <<selected, animation_data, rotation_euler, scale,
                   start_locs, start_rots, start_scales, op, host_tool, report,
                   faulted_at, gestures>>

GrabCancel(e) ==
    /\ phase = "Running" /\ op = "grab"
    /\ ~IsMouseMove(e) /\ ~IsConfirm(e) /\ IsCancel(e)
    /\ event' = e
    /\ location' = Restore(start_locs, location)
    /\ phase' = "Cancelled"
    /\ UNCHANGED <<selected, animation_data, fcurves, rotation_euler, scale,
                   start_locs, start_rots, start_scales, op, host_tool, report,
                   faulted_at, gestures>>

GrabIgnore(e) ==
    /\ phase = "Running" /\ op = "grab"
    /\ ~IsMouseMove(e) /\ ~IsConfirm(e) /\ ~IsCancel(e)
    /\ event' = e
    /\ UNCHANGED <<scene, start_locs, start_rots, start_scales, op, phase,
                   host_tool, report, faulted_at, gestures>>

-----------------------------------------------------------------------------
(* ANIMOFFSET_OT_rotate *)

\* delta = Vector(degrees(obj.rotation_euler.i - self.start_rots[obj].i));
\* every "rotation_euler" curve of the object's action gets
\* radians(delta[fc.array_index]) added to each keyframe
RotateOffsetObject(fcs, obj) ==
    IF HasAction(obj) /\ obj \in DOMAIN start_rots
    THEN LET now == rotation_euler[obj]
             was == start_rots[obj]
             delta == <<degrees(FSub(now[1], was[1])),
                        degrees(FSub(now[2], was[2])),
                        degrees(FSub(now[3], was[3]))>>
             act == animation_data[obj].action
         IN  [fcs EXCEPT ![act] =
                 [k \in 1..Len(fcs[act]) |->
                     IF fcs[act][k].data_path = "rotation_euler"
                     THEN EditPoints(fcs[act][k],
                              [j \in 1..Len(fcs[act][k].keyframe_points) |->
                                  FAdd(Values(fcs[act][k])[j],
                                       radians(delta[fcs[act][k].array_index + 1]))])
                     ELSE fcs[act][k]]]
    ELSE fcs

RECURSIVE RotateOffset(_, _)
RotateOffset(fcs, objs) ==
    IF objs = << >> THEN fcs
    ELSE RotateOffset(RotateOffsetObject(fcs, Head(objs)), Tail(objs))

RotateInvoke ==
    /\ phase # "Running"
    /\ LET animated_objects == AnimatedObjects
       IN  /\ start_rots' = StoreInitial(Cleared(start_rots), rotation_euler)
           /\ IF ~animated_objects
              THEN /\ report' = WarningReport
                   /\ phase' = "Cancelled"
                   /\ UNCHANGED <<host_tool, gestures>>
              ELSE /\ gestures < MaxGestures
                   /\ report' = << >>
                   /\ host_tool' = "rotate"
                   /\ phase' = "Running"
                   /\ gestures' = gestures + 1
    /\ op' = "rotate"
    /\ event' = Shortcut("R")
    /\ faulted_at' = NoObject
    /\ UNCHANGED <<scene, start_locs, start_scales>>

RotatePassThrough(e) ==
    /\ phase = "Running" /\ op = "rotate"
    /\ IsMouseMove(e)
    /\ event' = e
    /\ UNCHANGED <<scene, start_locs, start_rots, start_scales, op, phase,
                   host_tool, report, faulted_at, gestures>>

RotateConfirm(e) ==
    /\ phase = "Running" /\ op = "rotate"
    /\ ~IsMouseMove(e) /\ IsConfirm(e)
    /\ event' = e
    /\ fcurves' = RotateOffset(fcurves, SelectedObjects)
    /\ phase' = "Finished"
    /\ UNCHANGED <<selected, animation_data, location, rotation_euler, scale,
                   start_locs, start_rots, start_scales, op, host_tool, report,
                   faulted_at, gestures>>

RotateCancel(e) ==
    /\ phase = "Running" /\ op = "rotate"
    /\ ~IsMouseMove(e) /\ ~IsConfirm(e) /\ IsCancel(e)
    /\ event' = e
    /\ rotation_euler' = Restore(start_rots, rotation_euler)
    /\ phase' = "Cancelled"
    /\ UNCHANGED <<selected, animation_data, fcurves, location, scale,
                   start_locs, start_rots, start_scales, op, host_tool, report,
                   faulted_at, gestures>>

RotateIgnore(e) ==
    /\ phase = "Running" /\ op = "rotate"
    /\ ~IsMouseMove(e) /\ ~IsConfirm(e) /\ ~IsCancel(e)
    /\ event' = e
    /\ UNCHANGED <<scene, start_locs, start_rots, start_scales, op, phase,
                   host_tool, report, faulted_at, gestures>>


-----------------------------------------------------------------------------
(* ANIMOFFSET_OT_scale *)

\* variant: only the axes that have a "scale" curve are divided
ScaleDeltaRaisesOnCurves(obj) ==
    \E k \in 1..Len(fcurves[animation_data[obj].action]) :
        LET fc == fcurves[animation_data[obj].action][k]
        IN  fc.data_path = "scale" /\ IsZero(start_scales[obj][fc.array_index + 1])

\* the three quotients obj.scale[i] / self.start_scales[obj][i] are all
\* evaluated when delta is built: any zero divisor raises ZeroDivisionError
ScaleDeltaRaises(obj) == \E i \in 1..3 : IsZero(start_scales[obj][i])

\* delta = Vector(obj.scale[i] / self.start_scales[obj][i] - 1)
ScaleDelta(obj) ==
    [i \in 1..3 |-> FSub(FDiv(scale[obj][i], start_scales[obj][i]), R(1))]

\* every "scale" curve of the object's action gets each keyframe multiplied
\* by 1 + delta[fc.array_index]
ScaleOffsetObject(fcs, obj) ==
    LET delta == ScaleDelta(obj)
        act == animation_data[obj].action
    IN  [fcs EXCEPT ![act] =
            [k \in 1..Len(fcs[act]) |->
                IF fcs[act][k].data_path = "scale"
                THEN EditPoints(fcs[act][k],
                         [j \in 1..Len(fcs[act][k].keyframe_points) |->
                             FMul(Values(fcs[act][k])[j],
                                  FAdd(R(1), delta[fcs[act][k].array_index + 1]))])
                ELSE fcs[act][k]]]

RECURSIVE ScaleOffsetLoop(_, _)
ScaleOffsetLoop(fcs, objs) ==
    IF objs = << >> THEN fcs
    ELSE LET obj == Head(objs)
         IN  IF HasAction(obj) /\ obj \in DOMAIN start_scales
             THEN ScaleOffsetLoop(ScaleOffsetObject(fcs, obj), Tail(objs))
             ELSE ScaleOffsetLoop(fcs, Tail(objs))

\* variant: every delta is computed before any curve is edited, so a
\* raising object leaves all keyframes as they were
ScaleOffsetAtomic(fcs, objs) ==
    LET bad == {i \in 1..Len(objs) :
                   /\ HasAction(objs[i]) /\ objs[i] \in DOMAIN start_scales
                   /\ ScaleDeltaRaises(objs[i])}
    IN  IF bad = {}
        THEN [fcurves |-> ScaleOffsetLoop(fcs, objs), raised |-> NoObject]
        ELSE [fcurves |-> fcs,
              raised |-> objs[CHOOSE i \in bad : \A i2 \in bad : i <= i2]]

\* the loop over context.selected_objects; it stops at the first object
\* whose delta computation raises, leaving the earlier edits in place
RECURSIVE ScaleOffset(_, _)
ScaleOffset(fcs, objs) ==
    IF objs = << >> THEN [fcurves |-> fcs, raised |-> NoObject]
    ELSE LET obj == Head(objs)
         IN  IF HasAction(obj) /\ obj \in DOMAIN start_scales
             THEN IF ScaleDeltaRaises(obj)
                  THEN [fcurves |-> fcs, raised |-> obj]
                  ELSE ScaleOffset(ScaleOffsetObject(fcs, obj), Tail(objs))
             ELSE ScaleOffset(fcs, Tail(objs))

ScaleInvoke ==
    /\ phase # "Running"
    /\ LET animated_objects == AnimatedObjects
       IN  /\ start_scales' = StoreInitial(Cleared(start_scales), scale)
           /\ IF ~animated_objects
              THEN /\ report' = WarningReport
                   /\ phase' = "Cancelled"
                   /\ UNCHANGED <<host_tool, gestures>>
              ELSE /\ gestures < MaxGestures
                   /\ report' = << >>
                   /\ host_tool' = "resize"
                   /\ phase' = "Running"
                   /\ gestures' = gestures + 1
    /\ op' = "scale"
    /\ event' = Shortcut("S")
    /\ faulted_at' = NoObject
    /\ UNCHANGED <<scene, start_locs, start_rots>>

ScalePassThrough(e) ==
    /\ phase = "Running" /\ op = "scale"
    /\ IsMouseMove(e)
    /\ event' = e
    /\ UNCHANGED <<scene, start_locs, start_rots, start_scales, op, phase,
                   host_tool, report, faulted_at, gestures>>

ScaleConfirm(e) ==
    /\ phase = "Running" /\ op = "scale"
    /\ ~IsMouseMove(e) /\ IsConfirm(e)
    /\ event' = e
    /\ LET out == ScaleOffset(fcurves, SelectedObjects)
       IN  /\ fcurves' = out.fcurves
           /\ faulted_at' = out.raised
           /\ phase' = IF out.raised = NoObject THEN "Finished" ELSE "Faulted"
    /\ UNCHANGED <<selected, animation_data, location, rotation_euler, scale,
                   start_locs, start_rots, start_scales, op, host_tool, report,
                   gestures>>

ScaleCancel(e) ==
    /\ phase = "Running" /\ op = "scale"
    /\ ~IsMouseMove(e) /\ ~IsConfirm(e) /\ IsCancel(e)
    /\ event' = e
    /\ scale' = Restore(start_scales, scale)
    /\ phase' = "Cancelled"
    /\ UNCHANGED <<selected, animation_data, fcurves, location, rotation_euler,
                   start_locs, start_rots, start_scales, op, host_tool, report,
                   faulted_at, gestures>>

ScaleIgnore(e) ==
    /\ phase = "Running" /\ op = "scale"
    /\ ~IsMouseMove(e) /\ ~IsConfirm(e) /\ ~IsCancel(e)
    /\ event' = e
    /\ UNCHANGED <<scene, start_locs, start_rots, start_scales, op, phase,
                   host_tool, report, faulted_at, gestures>>

-----------------------------------------------------------------------------
(* The host: its interactive transform tool, and what else may happen to   *)
(* the scene around a gesture                                              *)

\* the host tool launched by invoke consumes a mouse move that the modal
\* handler passed through: it transforms the selected objects, leaving a
\* new value v[o] in the transform component of each of them
HostMoved(comp, v) == [o \in Objs |-> IF o \in selected THEN v[o] ELSE comp[o]]

HostTranslate(v) ==
    /\ phase = "Running" /\ host_tool = "translate" /\ IsMouseMove(event)
    /\ location' = HostMoved(location, v)
    /\ event' = NoEvent
    /\ UNCHANGED <<selected, animation_data, fcurves, rotation_euler, scale,
                   start_locs, start_rots, start_scales, op, phase, host_tool,
                   report, faulted_at, gestures>>

HostRotate(v) ==
    /\ phase = "Running" /\ host_tool = "rotate" /\ IsMouseMove(event)
    /\ rotation_euler' = HostMoved(rotation_euler, v)
    /\ event' = NoEvent
    /\ UNCHANGED <<selected, animation_data, fcurves, location, scale,
                   start_locs, start_rots, start_scales, op, phase, host_tool,
                   report, faulted_at, gestures>>

HostResize(v) ==
    /\ phase = "Running" /\ host_tool = "resize" /\ IsMouseMove(event)
    /\ scale' = HostMoved(scale, v)
    /\ event' = NoEvent
    /\ UNCHANGED <<selected, animation_data, fcurves, location, rotation_euler,
                   start_locs, start_rots, start_scales, op, phase, host_tool,
                   report, faulted_at, gestures>>

\* between gestures the user takes an object out of the selection; during
\* a gesture the events go to the modal handlers, so the selection stays
Deselect(o) ==
    /\ phase # "Running"
    /\ o \in selected
    /\ selected' = selected \ {o}
    /\ event' = NoEvent
    /\ UNCHANGED <<animation_data, fcurves, location, rotation_euler, scale,
                   start_locs, start_rots, start_scales, op, phase, host_tool,
                   report, faulted_at, gestures>>

\* an object's action is unlinked, possibly in the middle of a gesture
LoseAnimation(o) ==
    /\ o \in Unlinkable
    /\ HasAction(o)
    /\ animation_data' = [animation_data EXCEPT ![o] = AnimData(NoAction)]
    /\ event' = NoEvent
    /\ UNCHANGED <<selected, fcurves, location, rotation_euler, scale,
                   start_locs, start_rots, start_scales, op, phase, host_tool,
                   report, faulted_at, gestures>>

-----------------------------------------------------------------------------
(* Specification *)

Init ==
    /\ selected \in SUBSET Objs
    /\ animation_data \in InitAnimation
    /\ fcurves = InitCurves
    /\ location = [o \in Objs |-> V3(0, 0, 0)]
    /\ rotation_euler = [o \in Objs |-> V3(0, 0, 0)]
    /\ scale = [o \in Objs |-> V3(1, 1, 1)]
    /\ start_locs = EmptyMap
    /\ start_rots = EmptyMap
    /\ start_scales = EmptyMap
    /\ op = "none"
    /\ phase = "Idle"
    /\ event = NoEvent
    /\ host_tool = "none"
    /\ report = << >>
    /\ faulted_at = NoObject
    /\ gestures = 0

Next ==
    \/ GrabInvoke
    \/ \E e \in Events : GrabPassThrough(e)
    \/ \E e \in Events : GrabConfirm(e)
    \/ \E e \in Events : GrabCancel(e)
    \/ \E e \in Events : GrabIgnore(e)
    \/ RotateInvoke
    \/ \E e \in Events : RotatePassThrough(e)
    \/ \E e \in Events : RotateConfirm(e)
    \/ \E e \in Events : RotateCancel(e)
    \/ \E e \in Events : RotateIgnore(e)
    \/ ScaleInvoke
    \/ \E e \in Events : ScalePassThrough(e)
    \/ \E e \in Events : ScaleConfirm(e)
    \/ \E e \in Events : ScaleCancel(e)
    \/ \E e \in Events : ScaleIgnore(e)
    \/ \E v \in [selected -> LocChoices] : HostTranslate(v)
    \/ \E v \in [selected -> RotChoices] : HostRotate(v)
    \/ \E v \in [selected -> ScaleChoices] : HostResize(v)
    \/ \E o \in Objs : Deselect(o)
    \/ \E o \in Objs : LoseAnimation(o)

Spec == Init /\ [][Next]_vars

-----------------------------------------------------------------------------
(* Vocabulary of the properties *)

\* a step in which the running modal handler of operator o returns t
Ends(o, t) == phase = "Running" /\ op = o /\ phase' = t

\* the objects the confirm loop of an operator acts on
Offsettable(start) == {o \in selected : HasAction(o) /\ o \in DOMAIN start}

ActionOf(o) == animation_data[o].action

Value(fcs, a, k, j) == fcs[a][k].keyframe_points[j].co.y

\* the curves of action a with data path p, by position
CurvesOn(a, p) == {k \in 1..Len(fcurves[a]) : fcurves[a][k].data_path = p}

Points(a, k) == 1..Len(fcurves[a][k].keyframe_points)

Axis(a, k) == fcurves[a][k].array_index + 1

\* a step in which an operator's invoke runs
InvokeStep == event' \in {Shortcut("G"), Shortcut("R"), Shortcut("S")}

\* a step in which the running operator's modal handler runs
ModalStep == phase = "Running" /\ event' \in Events

Zero3 == V3(0, 0, 0)

\* a step in which the running modal handler of operator o gets the
\* left-mouse release
ConfirmStep(o) ==
    /\ phase = "Running" /\ op = o
    /\ event' = [type |-> "LEFTMOUSE", value |-> "RELEASE"]

\* the stored objects that have no action (any more)
Lost(start) == {o \in selected \cap DOMAIN start : ~HasAction(o)}

\* the objects the confirm loop acts on that have action a
Sharers(start, a) == {o \in Offsettable(start) : ActionOf(o) = a}

\* final minus snapshot, per object and axis, by direct subtraction
Moved(comp, start) == [o \in DOMAIN start |-> VSub(comp[o], start[o])]

\* final over snapshot, per object and axis (snapshot components non-zero)
Factor(comp, start) ==
    [o \in DOMAIN start |-> [i \in 1..3 |-> FDiv(comp[o][i], start[o][i])]]

RECURSIVE SumAxis(_, _, _)
SumAxis(S, d, i) ==
    IF S = {} THEN R(0)
    ELSE LET o == CHOOSE x \in S : TRUE
         IN  FAdd(d[o][i], SumAxis(S \ {o}, d, i))

RECURSIVE ProductAxis(_, _, _)
ProductAxis(S, f, i) ==
    IF S = {} THEN R(1)
    ELSE LET o == CHOOSE x \in S : TRUE
         IN  FMul(f[o][i], ProductAxis(S \ {o}, f, i))

\* every keyframe of every curve with data path p is its old value plus the
\* deltas d of the objects in Sharers(start, action)
OffsetBy(p, start, d) ==
    \A a \in Actions : \A k \in CurvesOn(a, p) : \A j \in Points(a, k) :
        Value(fcurves', a, k, j) =
            FAdd(Value(fcurves, a, k, j), SumAxis(Sharers(start, a), d, Axis(a, k)))

\* what a step leaves alone when it may only edit the values of the
\* keyframes on curves with data path p
FrameOfConfirm(p) ==
    /\ location' = location /\ rotation_euler' = rotation_euler /\ scale' = scale
    /\ \A a \in Actions :
          /\ Len(fcurves'[a]) = Len(fcurves[a])
          /\ \A k \in 1..Len(fcurves[a]) :
                /\ fcurves'[a][k].data_path = fcurves[a][k].data_path
                /\ fcurves'[a][k].array_index = fcurves[a][k].array_index
                /\ Len(fcurves'[a][k].keyframe_points) = Len(fcurves[a][k].keyframe_points)
                /\ \A j \in Points(a, k) :
                      fcurves'[a][k].keyframe_points[j].co.x =
                          fcurves[a][k].keyframe_points[j].co.x
                /\ fcurves[a][k].data_path # p => fcurves'[a][k] = fcurves[a][k]

HasZero(v) == \E i \in 1..3 : v[i] = R(0)

\* the place of a selected object in context.selected_objects
Position(o) == CHOOSE i \in 1..Len(SelectedObjects) : SelectedObjects[i] = o

\* the objects the scale confirm loop would divide by zero for
ZeroStored == {o \in Offsettable(start_scales) : HasZero(start_scales[o])}

\* the first of them in the selection order
FirstZeroStored ==
    CHOOSE o \in ZeroStored : \A o2 \in ZeroStored : Position(o) <= Position(o2)

\* the objects the loop acts on before it reaches that one
BeforeFault ==
    {o \in Offsettable(start_scales) : Position(o) < Position(FirstZeroStored)}

TypeOK ==
    /\ selected \subseteq Objs
    /\ animation_data \in [Objs -> AnimChoices]
    /\ phase \in {"Idle", "Running", "Finished", "Cancelled", "Faulted"}
    /\ op \in {"none", "grab", "rotate", "scale"}
    /\ gestures \in 0..MaxGestures

-----------------------------------------------------------------------------
(* C1 - Grab confirm: when a grab gesture is confirmed, for every selected *)
(* object O with an action and a snapshot S whose live position is F,      *)
(* every keyframe value v of every "location" curve of O's action with     *)
(* axis index i becomes exactly v + (F[i] - S[i]).                         *)
C1_GrabConfirmAddsDelta ==
    [][Ends("grab", "Finished") =>
        \A o \in Offsettable(start_locs) :
            \A k \in CurvesOn(ActionOf(o), "location") :
                \A j \in Points(ActionOf(o), k) :
                    Value(fcurves', ActionOf(o), k, j) =
                        FAdd(Value(fcurves, ActionOf(o), k, j),
                             FSub(location[o][Axis(ActionOf(o), k)],
                                  start_locs[o][Axis(ActionOf(o), k)]))]_vars

(* C2 - Cancel restores the pose: for each of the three operators, after  *)
(* a Running gesture is cancelled every object that has a snapshot S has   *)
(* its live transform component (position, Euler rotation, scale) equal to *)
(* S, whatever the host tool did to it during the gesture.                 *)
C2_CancelRestoresPose ==
    phase = "Cancelled" =>
        /\ op = "grab" => \A o \in DOMAIN start_locs : location[o] = start_locs[o]
        /\ op = "rotate" => \A o \in DOMAIN start_rots : rotation_euler[o] = start_rots[o]
        /\ op = "scale" => \A o \in DOMAIN start_scales : scale[o] = start_scales[o]

\* a grab was cancelled after the host had moved the selection: B, selected
\* but not animated, keeps the host's position while A is back at its snapshot
C2_Witness ==
    /\ phase = "Cancelled" /\ op = "grab" /\ IsCancel(event) /\ gestures = 1
    /\ "A" \in DOMAIN start_locs /\ "B" \notin DOMAIN start_locs
    /\ "B" \in selected /\ location["B"] # Zero3
    /\ location["A"] = Zero3

(* C3 - Cancel edits no keyframe: for each of the three operators, no step *)
(* of a gesture that ends in Cancelled (the invocation, the events handled *)
(* while Running, the host's moves, the cancel itself) changes any         *)
(* keyframe of any curve, so every value is as it was at invocation time.  *)
C3_CancelEditsNoKeyframe ==
    [][(phase' = "Running" \/ phase' = "Cancelled") => fcurves' = fcurves]_vars

\* a rotate gesture was cancelled with Escape after the host had rotated
\* the selection
C3_Witness ==
    /\ phase = "Cancelled" /\ op = "rotate" /\ event.type = "ESC" /\ gestures = 1
    /\ "A" \in DOMAIN start_rots /\ "B" \notin DOMAIN start_rots
    /\ "B" \in selected /\ rotation_euler["B"] # Zero3
    /\ fcurves = InitCurves

(* C4 - Invocation with no animated object: if at invocation no selected   *)
(* object has animation data with an action, the operator reports the      *)
(* warning and ends as Cancelled without entering Running, without         *)
(* launching the host transform tool, and without changing any selection,  *)
(* animation data, transform or keyframe.                                  *)
C4_InvokeWithoutAnimationRejected ==
    [][(InvokeStep /\ ~(\E o \in selected : HasAction(o))) =>
        /\ phase' = "Cancelled"
        /\ report' = WarningReport
        /\ UNCHANGED <<host_tool, gestures, selected, animation_data, fcurves,
                       location, rotation_euler, scale>>]_vars

\* an invocation was rejected although an object without animation is selected
C4_Witness ==
    /\ phase = "Cancelled" /\ report = WarningReport
    /\ event \in {Shortcut("G"), Shortcut("R"), Shortcut("S")}
    /\ selected # {} /\ \A o \in selected : ~HasAction(o)
    /\ host_tool = "none"

(* C5 - Scale confirm: when a scale gesture is confirmed, for every        *)
(* selected object O with an action and a snapshot scale S (all components *)
(* non-zero) whose live scale is F, every keyframe value v of every        *)
(* "scale" curve of O's action with axis index i becomes v * F[i] / S[i].  *)
C5_ScaleConfirmMultiplies ==
    [][Ends("scale", "Finished") =>
        \A o \in Offsettable(start_scales) :
            (\A i \in 1..3 : start_scales[o][i] # R(0)) =>
                \A k \in CurvesOn(ActionOf(o), "scale") :
                    \A j \in Points(ActionOf(o), k) :
                        Value(fcurves', ActionOf(o), k, j) =
                            FMul(Value(fcurves, ActionOf(o), k, j),
                                 FDiv(scale[o][Axis(ActionOf(o), k)],
                                      start_scales[o][Axis(ActionOf(o), k)]))]_vars

(* C6 - Objects without animation are untouched by the operators: an       *)
(* object without animation data or without an action gets no snapshot     *)
(* entry at invocation; a modal step (confirm, cancel or any other event)  *)
(* writes no transform of an object that has no snapshot entry, and edits  *)
(* no curve of an action that no selected object currently has.            *)
C6_UnanimatedUntouched ==
    [][/\ InvokeStep =>
            \A o \in Objs : ~HasAction(o) =>
                /\ op' = "grab" => o \notin DOMAIN start_locs'
                /\ op' = "rotate" => o \notin DOMAIN start_rots'
                /\ op' = "scale" => o \notin DOMAIN start_scales'
       /\ ModalStep =>
            /\ \A o \in Objs :
                  LET start == IF op = "grab" THEN start_locs
                               ELSE IF op = "rotate" THEN start_rots
                               ELSE start_scales
                  IN  o \notin DOMAIN start =>
                        /\ location'[o] = location[o]
                        /\ rotation_euler'[o] = rotation_euler[o]
                        /\ scale'[o] = scale[o]
            /\ \A a \in Actions :
                  (\A o \in selected : HasAction(o) => ActionOf(o) # a) =>
                        fcurves'[a] = fcurves[a]]_vars

\* a grab was confirmed with B selected but without animation data: the
\* host moved B, it has no snapshot entry, and A's curve was offset
C6_Witness ==
    /\ phase = "Finished" /\ op = "grab" /\ IsConfirm(event) /\ gestures = 1
    /\ "B" \in selected /\ ~animation_data["B"].exists
    /\ "B" \notin DOMAIN start_locs /\ location["B"] # Zero3
    /\ "A" \in DOMAIN start_locs /\ fcurves # InitCurves

(* C7 - Gesture state machine: every operator run follows Idle -> Invoked  *)
(* -> Running -> {Finished | Cancelled}; once Running, only a left-mouse   *)
(* RELEASE leads to Finished and only right mouse or Escape lead to        *)
(* Cancelled; every other event leaves the operator Running and changes no *)
(* snapshot entry, transform or keyframe.                                  *)
C7_GestureStateMachine ==
    [][/\ phase' # phase =>
            \/ phase # "Running" /\ InvokeStep /\ phase' \in {"Running", "Cancelled"}
            \/ phase = "Running" /\ phase' \in {"Finished", "Cancelled"}
       /\ (phase = "Running" /\ phase' = "Finished") =>
            event' = [type |-> "LEFTMOUSE", value |-> "RELEASE"]
       /\ (phase = "Running" /\ phase' = "Cancelled") =>
            event'.type \in {"RIGHTMOUSE", "ESC"}
       /\ (ModalStep /\ event' # [type |-> "LEFTMOUSE", value |-> "RELEASE"]
                     /\ event'.type \notin {"RIGHTMOUSE", "ESC"}) =>
            /\ phase' = "Running"
            /\ UNCHANGED <<start_locs, start_rots, start_scales, location,
                           rotation_euler, scale, fcurves>>]_vars

(* C8 - Snapshot is discarded at the end of the gesture: after a gesture   *)
(* has ended in Finished or Cancelled the mapping from object to           *)
(* pre-operation transform is empty.                                       *)
C8_SnapshotDiscardedAtEnd ==
    phase \in {"Finished", "Cancelled"} =>
        /\ DOMAIN start_locs = {}
        /\ DOMAIN start_rots = {}
        /\ DOMAIN start_scales = {}

(* C9 - Snapshot is fresh per gesture: right after an accepted invocation, *)
(* whatever gestures came before, the domain of the operator's snapshot    *)
(* mapping is exactly the set of objects that are selected and have an     *)
(* action, and each entry equals the object's transform component as it is *)
(* before the host tool moves anything.                                    *)
C9_SnapshotFreshPerGesture ==
    LET animated == {o \in selected : HasAction(o)}
    IN  /\ (phase = "Running" /\ event = Shortcut("G")) =>
            /\ DOMAIN start_locs = animated
            /\ \A o \in animated : start_locs[o] = location[o]
        /\ (phase = "Running" /\ event = Shortcut("R")) =>
            /\ DOMAIN start_rots = animated
            /\ \A o \in animated : start_rots[o] = rotation_euler[o]
        /\ (phase = "Running" /\ event = Shortcut("S")) =>
            /\ DOMAIN start_scales = animated
            /\ \A o \in animated : start_scales[o] = scale[o]

\* a second grab was accepted after a first one had offset B's own action
\* (so B had a snapshot entry then); B has none now, and A's entry is its
\* moved position
C9_Witness ==
    /\ phase = "Running" /\ event = Shortcut("G") /\ gestures = 2
    /\ Value(fcurves, "act2", 1, 1) # R(4)
    /\ "B" \notin DOMAIN start_locs
    /\ "A" \in DOMAIN start_locs /\ start_locs["A"] # Zero3

(* C10 - Zero initial scale faults: on confirm of a scale gesture, if a    *)
(* snapshot scale component of a selected object with an action is zero,   *)
(* the delta computation raises and the operator does not reach Finished,  *)
(* even when the object's action has no scale curve on that axis.          *)
C10_ZeroInitialScaleFaults ==
    [][(/\ phase = "Running" /\ op = "scale"
        /\ event' = [type |-> "LEFTMOUSE", value |-> "RELEASE"]
        /\ \E o \in Offsettable(start_scales) :
              \E i \in 1..3 : start_scales[o][i] = R(0)) =>
        phase' = "Faulted"]_vars

\* the confirm raised on A, whose snapshot is zero only on axes for which
\* its action has no "scale" curve
C10_Witness ==
    /\ phase = "Faulted" /\ faulted_at = "A" /\ HasAction("A")
    /\ \E i \in 1..3 : start_scales["A"][i] = R(0)
    /\ \A k \in CurvesOn(ActionOf("A"), "scale") :
          start_scales["A"][Axis(ActionOf("A"), k)] # R(0)

(* C11 - Animation lost mid-gesture is skipped: if an object had an action *)
(* at invocation (so it is stored) but has none when the gesture is        *)
(* confirmed, the confirm does not raise on it and edits nothing on its    *)
(* behalf, and the other stored objects still get their offset.  Grab and  *)
(* rotate then end in Finished; scale ends in Finished unless an object    *)
(* that still has its action has a zero snapshot component (C10).          *)
C11_LostAnimationSkipped ==
    [][/\ (ConfirmStep("grab") /\ Lost(start_locs) # {}) =>
            /\ phase' = "Finished"
            /\ OffsetBy("location", start_locs, Moved(location, start_locs))
       /\ (ConfirmStep("rotate") /\ Lost(start_rots) # {}) =>
            /\ phase' = "Finished"
            /\ OffsetBy("rotation_euler", start_rots, Moved(rotation_euler, start_rots))
       /\ (ConfirmStep("scale") /\ Lost(start_scales) # {}) =>
            /\ faulted_at' \notin Lost(start_scales)
            /\ (\A o \in Offsettable(start_scales) : ~HasZero(start_scales[o])) =>
                  /\ phase' = "Finished"
                  /\ \A a \in Actions : \A k \in CurvesOn(a, "scale") :
                        \A j \in Points(a, k) :
                           Value(fcurves', a, k, j) =
                              FMul(Value(fcurves, a, k, j),
                                   ProductAxis(Sharers(start_scales, a),
                                               Factor(scale, start_scales),
                                               Axis(a, k)))]_vars

\* a grab was confirmed after B, stored and moved by the host, had lost its
\* action: A's curve got A's delta only and act2 is as it was
C11_Witness ==
    /\ phase = "Finished" /\ op = "grab" /\ IsConfirm(event) /\ gestures = 1
    /\ "B" \in selected /\ "B" \in DOMAIN start_locs /\ ~HasAction("B")
    /\ location["B"] # start_locs["B"]
    /\ "A" \in DOMAIN start_locs /\ location["A"] = V3(2, 0, 0)
    /\ Value(fcurves, "act1", 1, 1) = R(7)
    /\ fcurves["act2"] = InitCurves["act2"]

(* C12 - Rotate confirm: when a rotate gesture is confirmed, for every     *)
(* selected object O with an action and a snapshot Euler rotation S whose  *)
(* live rotation is F, every keyframe value v of every "rotation_euler"    *)
(* curve of O's action with axis index i becomes exactly v + (F[i] - S[i]),*)
(* the difference taken directly in radians.                               *)
C12_RotateConfirmAddsDelta ==
    [][Ends("rotate", "Finished") =>
        \A o \in Offsettable(start_rots) :
            \A k \in CurvesOn(ActionOf(o), "rotation_euler") :
                \A j \in Points(ActionOf(o), k) :
                    Value(fcurves', ActionOf(o), k, j) =
                        FAdd(Value(fcurves, ActionOf(o), k, j),
                             FSub(rotation_euler[o][Axis(ActionOf(o), k)],
                                  start_rots[o][Axis(ActionOf(o), k)]))]_vars

(* C13 - Frame of confirm: the confirm step of operator X (grab, rotate,  *)
(* scale) changes only the value of keyframe points on curves whose data   *)
(* path is X's own ("location", "rotation_euler", "scale"): the keyframe   *)
(* times, the number and order of the points and of the curves, every      *)
(* curve with another data path and every object's live transform are as   *)
(* before the step.                                                        *)
C13_FrameOfConfirm ==
    [][/\ ConfirmStep("grab") => FrameOfConfirm("location")
       /\ ConfirmStep("rotate") => FrameOfConfirm("rotation_euler")
       /\ ConfirmStep("scale") => FrameOfConfirm("scale")]_vars

\* a grab of A (act1) and B (act2) by (0,1,3) was confirmed: the Y location
\* keyframe of act2 went from 4 to 5 and is still at frame 1, while the
\* scale and rotation curves of both actions are as at the start
C13_Witness ==
    /\ phase = "Finished" /\ op = "grab" /\ IsConfirm(event) /\ gestures = 1
    /\ "A" \in selected /\ "A" \in DOMAIN start_locs /\ HasAction("A")
    /\ start_locs["A"] = V3(0, 0, 0) /\ location["A"] = V3(0, 1, 3)
    /\ "B" \in selected /\ "B" \in DOMAIN start_locs /\ ActionOf("B") = "act2"
    /\ location["B"] = V3(0, 1, 3)
    /\ Value(fcurves, "act2", 1, 1) = R(5)
    /\ fcurves["act2"][2] = InitCurves["act2"][2]
    /\ fcurves["act1"][2] = InitCurves["act1"][2]
    /\ fcurves["act1"][3] = InitCurves["act1"][3]
    /\ fcurves["act2"][1].keyframe_points[1].co.x = 1

(* C14 - Round trip over gestures: a confirmed grab that moves an         *)
(* animated object by d, followed by a confirmed grab that moves it by -d, *)
(* leaves every location keyframe value of the object's action at its      *)
(* original value; and a confirmed grab in which the object has not moved  *)
(* (F = S) changes no location keyframe value of its action.  The first    *)
(* gesture starts from the initial pose (0,0,0), so the second, which      *)
(* brings the object back there from a snapshot d # 0, undoes it.          *)
C14_GrabRoundTrip ==
    [][Ends("grab", "Finished") =>
        \A o \in Offsettable(start_locs) :
            \A k \in CurvesOn(ActionOf(o), "location") :
                \A j \in Points(ActionOf(o), k) :
                    /\ location[o] = start_locs[o] =>
                          Value(fcurves', ActionOf(o), k, j) =
                              Value(fcurves, ActionOf(o), k, j)
                    /\ (gestures = 2 /\ start_locs[o] # Zero3 /\ location[o] = Zero3) =>
                          Value(fcurves', ActionOf(o), k, j) =
                              Value(InitCurves, ActionOf(o), k, j)]_vars

(* C15 - Shared action is offset once per object: when two selected      *)
(* objects that both have snapshots are linked to the same action, a       *)
(* confirmed grab adds the delta of each of them to that action's location *)
(* keyframes: each value v ends as v + d1[i] + d2[i], not as v + d1[i].    *)
C15_SharedActionOffsetPerObject ==
    [][Ends("grab", "Finished") =>
        \A o1, o2 \in Offsettable(start_locs) :
            (o1 # o2 /\ ActionOf(o1) = ActionOf(o2)) =>
                \A k \in CurvesOn(ActionOf(o1), "location") :
                    \A j \in Points(ActionOf(o1), k) :
                        Value(fcurves', ActionOf(o1), k, j) =
                            FAdd(FAdd(Value(fcurves, ActionOf(o1), k, j),
                                      FSub(location[o1][Axis(ActionOf(o1), k)],
                                           start_locs[o1][Axis(ActionOf(o1), k)])),
                                 FSub(location[o2][Axis(ActionOf(o1), k)],
                                      start_locs[o2][Axis(ActionOf(o1), k)]))]_vars

\* A and B share act1 and were both grabbed from (0,0,0) to (2,0,0): the X
\* keyframes 5 and 8 are now 9 and 12
C15_Witness ==
    /\ phase = "Finished" /\ op = "grab" /\ IsConfirm(event) /\ gestures = 1
    /\ Offsettable(start_locs) = {"A", "B"}
    /\ ActionOf("A") = "act1" /\ ActionOf("B") = "act1"
    /\ start_locs["A"] = Zero3 /\ start_locs["B"] = Zero3
    /\ location["A"] = V3(2, 0, 0) /\ location["B"] = V3(2, 0, 0)
    /\ Value(fcurves, "act1", 1, 1) = R(9)
    /\ Value(fcurves, "act1", 1, 2) = R(12)

(* C16 - Scale confirm is not atomic on fault: when the confirm step of   *)
(* a scale gesture faults on an object with a zero snapshot component, it  *)
(* faults on the first such object in the selection order; every scale     *)
(* keyframe has by then been multiplied by F[i]/S[i] of each object before *)
(* it that has the keyframe's action, and stays so, and no factor of the   *)
(* faulting object or of an object after it has been applied.              *)
C16_ScaleFaultNotAtomic ==
    [][(phase = "Running" /\ op = "scale" /\ phase' = "Faulted") =>
        /\ ZeroStored # {}
        /\ faulted_at' = FirstZeroStored
        /\ \A a \in Actions : \A k \in CurvesOn(a, "scale") : \A j \in Points(a, k) :
              Value(fcurves', a, k, j) =
                  FMul(Value(fcurves, a, k, j),
                       ProductAxis({o \in BeforeFault : ActionOf(o) = a},
                                   [o \in BeforeFault |->
                                       [i \in 1..3 |->
                                           FDiv(scale[o][i], start_scales[o][i])]],
                                   Axis(a, k)))]_vars

\* the second scale gesture raised on B after A, stored at (1,2,1) and
\* scaled to (0,1,1), had the Y scale keyframe of act1 halved from 6 to 3
C16_Witness ==
    /\ phase = "Faulted" /\ op = "scale" /\ faulted_at = "B"
    /\ "A" \in selected /\ HasAction("A") /\ "A" \in DOMAIN start_scales
    /\ start_scales["A"] = V3(1, 2, 1) /\ scale["A"] = V3(0, 1, 1)
    /\ start_scales["B"] = V3(0, 1, 1) /\ ActionOf("B") = "act2"
    /\ gestures = 2
    /\ Value(fcurves, "act1", 2, 1) = R(3)

====
